---- MODULE Spec2Model ----
(***************************************************************************)
(* A model of main.py: the FastAPI application `app`, its sixteen path     *)
(* operations in registration order, the shared list fake_items_db and the *)
(* handlers.  Requests are served by a small pool of workers; each request *)
(* goes through receive -> dispatch (route selection) -> handle (parameter *)
(* validation and the handler body) -> respond.                            *)
(*                                                                         *)
(* Text is modelled as sequences of one-character strings, so that length  *)
(* constraints, integer parsing, pattern matching and the joining of path  *)
(* segments are computed rather than assumed.  Floats of the request body  *)
(* are modelled as integers; only their sum is ever taken.                 *)
(*                                                                         *)
(* The semantics of the decorators and of Query()/BaseModel are those of   *)
(* the framework generation the file is written against (Query(regex=...), *)
(* item.dict(), and the remark at line 150 that min_length on a List[str]  *)
(* constrains the strings, not the list).                                  *)
(***************************************************************************)
EXTENDS Integers, Sequences, FiniteSets, TLC

VARIABLES fake_items_db, workers

vars == <<fake_items_db, workers>>

(***************************************************************************)
(* Text literals of main.py and of the requests sent to it.                *)
(***************************************************************************)
S_empty == <<>>
S_items == <<"i", "t", "e", "m", "s">>
S_users == <<"u", "s", "e", "r", "s">>
S_me == <<"m", "e">>
S_models == <<"m", "o", "d", "e", "l", "s">>
S_files == <<"f", "i", "l", "e", "s">>
S_things == <<"t", "h", "i", "n", "g", "s">>
S_fruits == <<"f", "r", "u", "i", "t", "s">>
S_vegetables == <<"v", "e", "g", "e", "t", "a", "b", "l", "e", "s">>
S_stones == <<"s", "t", "o", "n", "e", "s">>
S_nowhere == <<"n", "o", "w", "h", "e", "r", "e">>
S_the_current_user == <<"t", "h", "e", "_", "c", "u", "r", "r", "e", "n", "t", "_", "u", "s", "e", "r">>
S_Rick == <<"R", "i", "c", "k">>
S_Morty == <<"M", "o", "r", "t", "y">>
S_Bean == <<"B", "e", "a", "n">>
S_Elfo == <<"E", "l", "f", "o">>
S_abc == <<"a", "b", "c">>
S_def == <<"d", "e", "f">>
S_ghi == <<"g", "h", "i">>
S_a == <<"a">>
S_b == <<"b">>
S_c == <<"c">>
S_oh == <<"o", "h">>
S_hi == <<"h", "i">>
S_el_gato == <<"e", "l", " ", "g", "a", "t", "o">>
S_Hello_World == <<"H", "e", "l", "l", "o", " ", "W", "o", "r", "l", "d">>
S_Foo == <<"F", "o", "o">>
S_Bar == <<"B", "a", "r">>
S_Baz == <<"B", "a", "z">>
S_long_description == <<"T", "h", "i", "s", " ", "i", "s", " ", "a", "n", " ", "a", "m", "a", "z", "i", "n", "g", " ", "i", "t", "e", "m", " ", "t", "h", "a", "t", " ", "h", "a", "s", " ", "a", " ", "l", "o", "n", "g", " ", "d", "e", "s", "c", "r", "i", "p", "t", "i", "o", "n">>
S_apple == <<"a", "p", "p", "l", "e">>
S_pear == <<"p", "e", "a", "r">>
S_quartz == <<"q", "u", "a", "r", "t", "z">>
S_basalt == <<"b", "a", "s", "a", "l", "t">>
S_fixedquery == <<"f", "i", "x", "e", "d", "q", "u", "e", "r", "y">>
S_hard == <<"h", "a", "r", "d">>
S_q == <<"q">>
S_short == <<"s", "h", "o", "r", "t">>
S_skip == <<"s", "k", "i", "p">>
S_limit == <<"l", "i", "m", "i", "t">>
S_veg == <<"v", "e", "g">>
S_stone_query == <<"s", "t", "o", "n", "e", "-", "q", "u", "e", "r", "y">>
S_x == <<"x">>
S_y == <<"y">>
S_ab == <<"a", "b">>
S_other == <<"o", "t", "h", "e", "r">>
S_carrot == <<"c", "a", "r", "r", "o", "t">>
S_kale == <<"k", "a", "l", "e">>
S_c_txt == <<"c", ".", "t", "x", "t">>
S_true == <<"t", "r", "u", "e">>
S_True == <<"T", "r", "u", "e">>
S_yes == <<"y", "e", "s">>
S_false == <<"f", "a", "l", "s", "e">>
S_maybe == <<"m", "a", "y", "b", "e">>
S_hammer == <<"h", "a", "m", "m", "e", "r">>
S_newline == <<"\n">>

(***************************************************************************)
(* Bounds of the model.                                                    *)
(***************************************************************************)
NumWorkers == 2
MaxIdx == 4
MaxNeg == 2
MaxSegs == 3
MaxVeg == 2

(***************************************************************************)
(* Text helpers.                                                           *)
(***************************************************************************)
Digits == <<"0", "1", "2", "3", "4", "5", "6", "7", "8", "9">>

IsDigit(ch) == \E i \in 1..10 : Digits[i] = ch

DigitVal(ch) == (CHOOSE i \in 1..10 : Digits[i] = ch) - 1

RECURSIVE DigitsVal(_)
DigitsVal(s) ==
    IF s = <<>> THEN 0
    ELSE 10 * DigitsVal(SubSeq(s, 1, Len(s) - 1)) + DigitVal(s[Len(s)])

AllDigits(s) == Len(s) >= 1 /\ \A i \in 1..Len(s) : IsDigit(s[i])

(* int(text): an optional sign and at least one digit.                     *)
IsIntText(s) ==
    IF s # <<>> /\ s[1] \in {"-", "+"} THEN AllDigits(Tail(s)) ELSE AllDigits(s)

IntOfText(s) ==
    IF s[1] = "-" THEN 0 - DigitsVal(Tail(s))
    ELSE IF s[1] = "+" THEN DigitsVal(Tail(s))
    ELSE DigitsVal(s)

RECURSIVE NatToStr(_)
NatToStr(n) ==
    IF n < 10 THEN <<Digits[n + 1]>>
    ELSE NatToStr(n \div 10) \o <<Digits[(n % 10) + 1]>>

IntToStr(n) == IF n < 0 THEN <<"-">> \o NatToStr(0 - n) ELSE NatToStr(n)

RECURSIVE Rep(_, _)
Rep(ch, n) == IF n = 0 THEN <<>> ELSE <<ch>> \o Rep(ch, n - 1)

RECURSIVE Join(_)
Join(segs) ==
    IF segs = <<>> THEN <<>>
    ELSE IF Len(segs) = 1 THEN segs[1]
    ELSE segs[1] \o <<"/">> \o Join(Tail(segs))

UpperLetters ==
    <<"A", "B", "C", "D", "E", "F", "G", "H", "I", "J", "K", "L", "M",
      "N", "O", "P", "Q", "R", "S", "T", "U", "V", "W", "X", "Y", "Z">>

LowerLetters ==
    <<"a", "b", "c", "d", "e", "f", "g", "h", "i", "j", "k", "l", "m",
      "n", "o", "p", "q", "r", "s", "t", "u", "v", "w", "x", "y", "z">>

Lower(ch) ==
    IF \E i \in 1..26 : UpperLetters[i] = ch
    THEN LowerLetters[CHOOSE i \in 1..26 : UpperLetters[i] = ch]
    ELSE ch

LowerStr(s) == [i \in 1..Len(s) |-> Lower(s[i])]

(***************************************************************************)
(* Python values: None, str, int, bool, list, dict.                        *)
(***************************************************************************)
None == [t |-> "None"]
PyStr(s) == [t |-> "str", v |-> s]
PyInt(n) == [t |-> "int", v |-> n]
PyList(l) == [t |-> "list", v |-> l]
PyDict(d) == [t |-> "dict", v |-> d]

Truthy(x) ==
    CASE x.t = "None" -> FALSE
      [] x.t = "str" -> x.v # <<>>
      [] x.t = "list" -> x.v # <<>>
      [] x.t = "int" -> x.v # 0
      [] OTHER -> TRUE

(***************************************************************************)
(* The route table: one entry per decorator of main.py, in file order.     *)
(* FastAPI's own documentation routes (/openapi.json, /docs, /redoc) are   *)
(* left out; no path of main.py overlaps them.  A path is the sequence of  *)
(* the pieces between its slashes, so "/items/" is <<"items", "">>.        *)
(***************************************************************************)
Lit(s) == [k |-> "lit", s |-> s, name |-> "", conv |-> ""]
Param(name) == [k |-> "param", s |-> <<>>, name |-> name, conv |-> "str"]
PathParamAsSegment(name) == [k |-> "param", s |-> <<>>, name |-> name, conv |-> "str"]
PathParam(name) == [k |-> "param", s |-> <<>>, name |-> name, conv |-> "path"]

Route(method, path, endpoint) == [method |-> method, path |-> path, endpoint |-> endpoint]

routes_param_first ==
    << Route("GET", <<Lit(S_empty)>>, "root"),
       Route("GET", <<Lit(S_items), Param("item_id")>>, "read_item"),
       Route("GET", <<Lit(S_users), Param("user_id")>>, "read_user"),
       Route("GET", <<Lit(S_users), Lit(S_me)>>, "read_user_me"),
       Route("GET", <<Lit(S_users)>>, "read_users"),
       Route("GET", <<Lit(S_users)>>, "read_users3"),
       Route("GET", <<Lit(S_models), Param("model_name")>>, "get_model"),
       Route("GET", <<Lit(S_files), PathParam("file_path")>>, "read_file"),
       Route("GET", <<Lit(S_items), Lit(S_empty)>>, "read_item_query"),
       Route("GET", <<Lit(S_things), Param("thing_id")>>, "read_thing"),
       Route("GET", <<Lit(S_users), Param("user_id"), Lit(S_items), Param("item_id")>>,
             "read_user_item"),
       Route("POST", <<Lit(S_items), Lit(S_empty)>>, "create_item"),
       Route("PUT", <<Lit(S_items), Param("item_id")>>, "create_item_put"),
       Route("GET", <<Lit(S_fruits), Lit(S_empty)>>, "read_fruits"),
       Route("GET", <<Lit(S_vegetables), Lit(S_empty)>>, "read_vegetables"),
       Route("GET", <<Lit(S_stones), Lit(S_empty)>>, "read_stones") >>

routes ==
    << Route("GET", <<Lit(S_empty)>>, "root"),
       Route("GET", <<Lit(S_items), Param("item_id")>>, "read_item"),
       Route("GET", <<Lit(S_users), Lit(S_me)>>, "read_user_me"),
       Route("GET", <<Lit(S_users), Param("user_id")>>, "read_user"),
       Route("GET", <<Lit(S_users)>>, "read_users"),
       Route("GET", <<Lit(S_users)>>, "read_users3"),
       Route("GET", <<Lit(S_models), Param("model_name")>>, "get_model"),
       Route("GET", <<Lit(S_files), PathParam("file_path")>>, "read_file"),
       Route("GET", <<Lit(S_items), Lit(S_empty)>>, "read_item_query"),
       Route("GET", <<Lit(S_things), Param("thing_id")>>, "read_thing"),
       Route("GET", <<Lit(S_users), Param("user_id"), Lit(S_items), Param("item_id")>>,
             "read_user_item"),
       Route("POST", <<Lit(S_items), Lit(S_empty)>>, "create_item"),
       Route("PUT", <<Lit(S_items), Param("item_id")>>, "create_item_put"),
       Route("GET", <<Lit(S_fruits), Lit(S_empty)>>, "read_fruits"),
       Route("GET", <<Lit(S_vegetables), Lit(S_empty)>>, "read_vegetables"),
       Route("GET", <<Lit(S_stones), Lit(S_empty)>>, "read_stones") >>

NoParams == [n \in {} |-> <<>>]

(* The compiled path pattern: a literal piece must be equal, {name} takes  *)
(* one non-empty piece, {name:path} takes everything that is left.         *)
RECURSIVE MatchPath(_, _)
MatchPath(pattern, segs) ==
    IF pattern = <<>> THEN [ok |-> segs = <<>>, params |-> NoParams]
    ELSE IF segs = <<>> THEN [ok |-> FALSE, params |-> NoParams]
    ELSE LET e == Head(pattern) IN
         IF e.k = "lit" THEN
            IF Head(segs) = e.s THEN MatchPath(Tail(pattern), Tail(segs))
            ELSE [ok |-> FALSE, params |-> NoParams]
         ELSE IF e.conv = "path" THEN
            [ok |-> Len(pattern) = 1, params |-> (e.name :> Join(segs))]
         ELSE IF Head(segs) = <<>> THEN [ok |-> FALSE, params |-> NoParams]
         ELSE LET rest == MatchPath(Tail(pattern), Tail(segs)) IN
              [ok |-> rest.ok, params |-> (e.name :> Head(segs)) @@ rest.params]

PathMatches(i, segs) == MatchPath(routes[i].path, segs).ok

IntParams(endpoint) ==
    CASE endpoint \in {"read_item", "create_item_put"} -> {"item_id"}
      [] endpoint = "read_user_item" -> {"user_id"}
      [] OTHER -> {}

FullMatchesTyped(req) ==
    {i \in 1..Len(routes) :
        /\ PathMatches(i, req.path)
        /\ routes[i].method = req.method
        /\ \A n \in IntParams(routes[i].endpoint) :
              IsIntText(MatchPath(routes[i].path, req.path).params[n])}

FullMatches(req) ==
    {i \in 1..Len(routes) : PathMatches(i, req.path) /\ routes[i].method = req.method}

PartialMatches(req) ==
    {i \in 1..Len(routes) : PathMatches(i, req.path) /\ routes[i].method # req.method}

LastMatch(S) == CHOOSE i \in S : \A j \in S : j <= i

(* Routes are tried in registration order; the first full match is taken.  *)
FirstMatch(S) == CHOOSE i \in S : \A j \in S : i <= j

RECURSIVE RStripSlash(_)
RStripSlash(segs) ==
    IF segs # <<>> /\ segs[Len(segs)] = <<>>
    THEN RStripSlash(SubSeq(segs, 1, Len(segs) - 1))
    ELSE segs

(* redirect_slashes: the same path with its trailing slash toggled.        *)
ToggleSlash(segs) ==
    IF segs[Len(segs)] = <<>> THEN RStripSlash(segs) ELSE Append(segs, <<>>)

R404 == [status |-> 404]
R405 == [status |-> 405]
R500 == [status |-> 500]
R307(location) == [status |-> 307, location |-> location]
R422(errs) == [status |-> 422, detail |-> errs]
R200(body) == [status |-> 200, body |-> body]

NoResp == [status |-> 0]

(* Router.__call__: a full match is handled by its route; otherwise a path *)
(* that matches under another method is answered 405, a path that matches  *)
(* with its trailing slash toggled is redirected, and the rest is 404.     *)
Dispatch(req) ==
    IF FullMatches(req) # {} THEN
        LET i == FirstMatch(FullMatches(req)) IN
        [endpoint |-> routes[i].endpoint,
         params |-> MatchPath(routes[i].path, req.path).params,
         resp |-> NoResp]
    ELSE IF PartialMatches(req) # {} THEN
        [endpoint |-> "", params |-> NoParams, resp |-> R405]
    ELSE IF req.path # <<S_empty>> /\ req.path # <<>>
            /\ \E i \in 1..Len(routes) : PathMatches(i, ToggleSlash(req.path)) THEN
        [endpoint |-> "", params |-> NoParams, resp |-> R307(ToggleSlash(req.path))]
    ELSE [endpoint |-> "", params |-> NoParams, resp |-> R404]

(***************************************************************************)
(* Parameter extraction and validation.                                    *)
(***************************************************************************)
Missing == [t |-> "missing"]
PyBool(b) == [t |-> "bool", v |-> b]
Raise(exc) == [t |-> "raise", exc |-> exc]
EmptyDict == [n \in {} |-> None]

Err(loc, type) == [loc |-> loc, type |-> type]
Good(val) == [errs |-> <<>>, val |-> val]
Bad(loc, type) == [errs |-> <<Err(loc, type)>>, val |-> None]

(* request.query_params.get(key): the last occurrence of the key wins.     *)
QueryValues(req, key) ==
    LET hits == SelectSeq(req.query, LAMBDA kv : kv.k = key)
    IN [i \in 1..Len(hits) |-> hits[i].v]

QueryGet(req, key) ==
    LET vs == QueryValues(req, key)
    IN IF vs = <<>> THEN Missing ELSE PyStr(vs[Len(vs)])

IntField(loc, s) ==
    IF IsIntText(s) THEN Good(PyInt(IntOfText(s))) ELSE Bad(loc, "type_error.integer")

BoolTrue == {<<"1">>, <<"o", "n">>, <<"t">>, <<"t", "r", "u", "e">>, <<"y">>, <<"y", "e", "s">>}
BoolFalse == {<<"0">>, <<"o", "f", "f">>, <<"f">>, <<"f", "a", "l", "s", "e">>, <<"n">>, <<"n", "o">>}

BoolField(loc, s) ==
    IF LowerStr(s) \in BoolTrue THEN Good(PyBool(TRUE))
    ELSE IF LowerStr(s) \in BoolFalse THEN Good(PyBool(FALSE))
    ELSE Bad(loc, "type_error.bool")

(* A query parameter with a default: the default when the key is absent.   *)
QueryInt(req, key, loc, default) ==
    LET x == QueryGet(req, key)
    IN IF x.t = "missing" THEN Good(PyInt(default)) ELSE IntField(loc, x.v)

QueryBool(req, key, loc, default) ==
    LET x == QueryGet(req, key)
    IN IF x.t = "missing" THEN Good(PyBool(default)) ELSE BoolField(loc, x.v)

QueryOptStr(req, key) ==
    LET x == QueryGet(req, key)
    IN IF x.t = "missing" THEN Good(None) ELSE Good(x)

(* re.match of "^text$": `$` also matches just before one final newline.   *)
ReMatchAnchored(text, s) == s = text \/ s = text \o S_newline

(* The constrained-str validators in their order: min_length, max_length,  *)
(* regex; the first that fails is the field's error.                       *)
ConstrainedStr(loc, s, c) ==
    IF Len(s) < c.min THEN Bad(loc, "value_error.any_str.min_length")
    ELSE IF c.has_max /\ Len(s) > c.max THEN Bad(loc, "value_error.any_str.max_length")
    ELSE IF c.has_regex /\ ~ReMatchAnchored(c.regex, s) THEN Bad(loc, "value_error.str.regex")
    ELSE Good(PyStr(s))

QueryConstrained(req, key, loc, c) ==
    LET x == QueryGet(req, key)
    IN IF x.t = "missing" THEN Good(None) ELSE ConstrainedStr(loc, x.v, c)

RECURSIVE Concat(_)
Concat(ss) == IF ss = <<>> THEN <<>> ELSE Head(ss) \o Concat(Tail(ss))

QueryStrListCount(req, key, loc, c) ==
    LET vs == QueryValues(req, key)
    IN IF vs = <<>> THEN Good(None)
       ELSE IF Len(vs) < c.min THEN Bad(loc, "value_error.list.min_items")
       ELSE Good(PyList([i \in 1..Len(vs) |-> PyStr(vs[i])]))

(* A List[str] query parameter: request.query_params.getlist(key), every   *)
(* element validated on its own; no occurrence at all is the default.      *)
QueryStrList(req, key, loc, c) ==
    LET vs == QueryValues(req, key)
        each == [i \in 1..Len(vs) |-> ConstrainedStr(Append(loc, Digits[i]), vs[i], c)]
        errs == Concat([i \in 1..Len(vs) |-> each[i].errs])
    IN IF vs = <<>> THEN Good(None)
       ELSE IF errs # <<>> THEN [errs |-> errs, val |-> None]
       ELSE Good(PyList([i \in 1..Len(vs) |-> each[i].val]))

(***************************************************************************)
(* class ModelName(str, Enum) and class Item(BaseModel).                   *)
(***************************************************************************)
Member(name, value) == [t |-> "enum", name |-> name, v |-> value]

ModelName_a == Member("a", S_abc)
ModelName_b == Member("b", S_def)
ModelName_c == Member("c", S_ghi)

ModelName == {ModelName_a, ModelName_b, ModelName_c}

EnumByName(loc, s) ==
    IF \E m \in ModelName : <<m.name>> = s
    THEN Good(CHOOSE m \in ModelName : <<m.name>> = s)
    ELSE Bad(loc, "type_error.enum")

(* ModelName(text): a member is found by its value, not by its name.       *)
EnumField(loc, s) ==
    IF \E m \in ModelName : m.v = s
    THEN Good(CHOOSE m \in ModelName : m.v = s)
    ELSE Bad(loc, "type_error.enum")

BodyField(body, key) == IF key \in DOMAIN body.v THEN body.v[key] ELSE Missing

StrValue(loc, x) ==
    CASE x.t = "str" -> Good(x)
      [] x.t = "int" -> Good(PyStr(IntToStr(x.v)))
      [] OTHER -> Bad(loc, "type_error.str")

FloatValue(loc, x) ==
    CASE x.t = "int" -> Good(x)
      [] x.t = "str" -> IF IsIntText(x.v) THEN Good(PyInt(IntOfText(x.v)))
                        ELSE Bad(loc, "type_error.float")
      [] OTHER -> Bad(loc, "type_error.float")

(* A field without a default must be present and not null; `checked` is    *)
(* the outcome of the field's own validator on the value.                  *)
Required(loc, x, checked) ==
    CASE x.t = "missing" -> Bad(loc, "value_error.missing")
      [] x.t = "None" -> Bad(loc, "type_error.none.not_allowed")
      [] OTHER -> checked

(* Union[..., None] = None: absent and null both give None.                *)
Optional(x, checked) ==
    IF x.t \in {"missing", "None"} THEN Good(None) ELSE checked

(* Item: name: str, description: Union[str, None] = None, price: float,    *)
(* tax: Union[float, None] = None.  Every field's errors are collected.    *)
Item(body) ==
    IF body.t # "dict" THEN Bad(<<"body">>, "value_error.missing")
    ELSE LET name == Required(<<"body", "name">>, BodyField(body, "name"),
                              StrValue(<<"body", "name">>, BodyField(body, "name")))
             description ==
                 Optional(BodyField(body, "description"),
                          StrValue(<<"body", "description">>, BodyField(body, "description")))
             price == Required(<<"body", "price">>, BodyField(body, "price"),
                               FloatValue(<<"body", "price">>, BodyField(body, "price")))
             tax == Optional(BodyField(body, "tax"),
                             FloatValue(<<"body", "tax">>, BodyField(body, "tax")))
         IN [errs |-> name.errs \o description.errs \o price.errs \o tax.errs,
             val |-> [name |-> name.val, description |-> description.val,
                      price |-> price.val, tax |-> tax.val]]

item_dict(item) ==
    PyDict(("name" :> item.name) @@ ("description" :> item.description)
           @@ ("price" :> item.price) @@ ("tax" :> item.tax))

(* dict.update and {**d}: the later keys win.                              *)
Update(d, u) == PyDict(u @@ d.v)

(***************************************************************************)
(* The handlers, named as in main.py.  The two functions called read_item  *)
(* and the two called create_item are told apart by a suffix.              *)
(***************************************************************************)
root == PyDict("message" :> PyStr(S_Hello_World))

read_item(item_id) == PyDict("item_id" :> item_id)

read_user_me == PyDict("user_id" :> PyStr(S_the_current_user))

read_user(user_id) == PyDict("user_id" :> user_id)

read_users == PyList(<<PyStr(S_Rick), PyStr(S_Morty)>>)

read_users3 == PyList(<<PyStr(S_Bean), PyStr(S_Elfo)>>)

get_model(model_name) ==
    IF model_name = ModelName_a
    THEN PyDict(("model_name" :> model_name) @@ ("message" :> PyStr(S_oh)))
    ELSE IF model_name.v = S_ghi
    THEN PyDict(("model_name" :> model_name) @@ ("message" :> PyStr(S_hi)))
    ELSE PyDict(("model_name" :> model_name) @@ ("message" :> PyStr(S_el_gato)))

read_file(file_path) == PyDict("file_path" :> file_path)

InitialCatalog ==
    << PyDict("item_name" :> PyStr(S_Foo)),
       PyDict("item_name" :> PyStr(S_Bar)),
       PyDict("item_name" :> PyStr(S_Baz)) >>

(* An index of a Python slice: negative counts from the end, then clamped. *)
SliceIndex(i, n) ==
    IF i < 0 THEN (IF i + n < 0 THEN 0 ELSE i + n)
    ELSE IF i > n THEN n ELSE i

PySliceInclusive(seq, start, stop) ==
    LET lo == SliceIndex(start, Len(seq))
        hi == SliceIndex(stop + 1, Len(seq))
    IN IF lo < hi THEN SubSeq(seq, lo + 1, hi) ELSE <<>>

PySlice(seq, start, stop) ==
    LET lo == SliceIndex(start, Len(seq))
        hi == SliceIndex(stop, Len(seq))
    IN IF lo < hi THEN SubSeq(seq, lo + 1, hi) ELSE <<>>

read_item_query_pop(skip, limit, db) ==
    [ret |-> PyList(PySlice(db, skip.v, skip.v + limit.v)),
     db |-> IF db = <<>> THEN db ELSE Tail(db)]

(* read_item of line 64: reads the module-level list and leaves it alone.  *)
read_item_query(skip, limit, db) ==
    [ret |-> PyList(PySlice(db, skip.v, skip.v + limit.v)), db |-> db]

LongDescription == PyDict("description" :> PyStr(S_long_description))

read_thing(thing_id, q, short) ==
    LET thing0 == PyDict("thing_id" :> thing_id)
        thing1 == IF Truthy(q) THEN Update(thing0, "q" :> q) ELSE thing0
    IN IF ~short.v THEN Update(thing1, LongDescription.v) ELSE thing1

read_user_item(user_id, item_id, q, short) ==
    LET item0 == PyDict(("item_id" :> item_id) @@ ("owner_id" :> user_id))
        item1 == IF Truthy(q) THEN Update(item0, "q" :> q) ELSE item0
    IN IF ~short.v THEN Update(item1, LongDescription.v) ELSE item1

create_item_zero_tax(item) ==
    Update(item_dict(item),
           "price_with_tax" :> PyInt(item.price.v + (IF item.tax.t = "None" THEN 0 ELSE item.tax.v)))

(* item.price + item.tax: float + None raises TypeError.                   *)
create_item(item) ==
    IF item.tax.t = "None" THEN Raise("TypeError")
    ELSE Update(item_dict(item), "price_with_tax" :> PyInt(item.price.v + item.tax.v))

create_item_put(item_id, item) == Update(PyDict("item_id" :> item_id), item_dict(item).v)

Fruits == PyDict("fruits" :> PyList(<<PyDict("fruit_id" :> PyStr(S_apple)),
                                      PyDict("fruit_id" :> PyStr(S_pear))>>))

read_fruits(q) == IF Truthy(q) THEN Update(Fruits, "q" :> q) ELSE Fruits

read_vegetables(q) == PyDict("q" :> q)

Stones == PyDict("stones" :> PyList(<<PyDict("stone_id" :> PyStr(S_quartz)),
                                      PyDict("stone_id" :> PyStr(S_basalt))>>))

read_stones(q) == IF Truthy(q) THEN Update(Stones, "q" :> q) ELSE Stones

(***************************************************************************)
(* Running a selected route: its parameters are taken from the path, the   *)
(* query string and the body, validated, and handed to the handler; the    *)
(* returned value is encoded as JSON.                                      *)
(***************************************************************************)
RECURSIVE Encode(_)
Encode(x) ==
    CASE x.t = "enum" -> PyStr(x.v)
      [] x.t = "dict" -> PyDict([k \in DOMAIN x.v |-> Encode(x.v[k])])
      [] x.t = "list" -> PyList([i \in 1..Len(x.v) |-> Encode(x.v[i])])
      [] OTHER -> x

(* 422 when any parameter failed, 500 when the handler raised, else 200.   *)
Finish(errs, ret) ==
    IF errs # <<>> THEN R422(errs)
    ELSE IF ret.t = "raise" THEN R500
    ELSE R200(Encode(ret))

skip_default == 0
limit_default == 10

FruitsQueryNoRegex ==
    [min |-> 3, has_max |-> TRUE, max |-> 50, has_regex |-> FALSE, regex |-> <<>>]

FruitsQuery ==
    [min |-> 3, has_max |-> TRUE, max |-> 50, has_regex |-> TRUE, regex |-> S_fixedquery]

VegetablesQuery ==
    [min |-> 3, has_max |-> FALSE, max |-> 0, has_regex |-> FALSE, regex |-> <<>>]

StonesQuery ==
    [min |-> 3, has_max |-> TRUE, max |-> 50, has_regex |-> TRUE, regex |-> S_hard]

Call_read_item(pp) ==
    LET item_id == IntField(<<"path", "item_id">>, pp["item_id"])
    IN Finish(item_id.errs, read_item(item_id.val))

Call_get_model(pp) ==
    LET model_name == EnumField(<<"path", "model_name">>, pp["model_name"])
    IN Finish(model_name.errs, get_model(model_name.val))

Call_read_item_query(req, db) ==
    LET skip == QueryInt(req, S_skip, <<"query", "skip">>, skip_default)
        limit == QueryInt(req, S_limit, <<"query", "limit">>, limit_default)
        errs == skip.errs \o limit.errs
    IN IF errs # <<>> THEN [resp |-> R422(errs), db |-> db]
       ELSE LET out == read_item_query(skip.val, limit.val, db)
            IN [resp |-> Finish(<<>>, out.ret), db |-> out.db]

Call_read_thing(req, pp) ==
    LET q == QueryOptStr(req, S_q)
        short == QueryBool(req, S_short, <<"query", "short">>, FALSE)
    IN Finish(q.errs \o short.errs, read_thing(PyStr(pp["thing_id"]), q.val, short.val))

Call_read_user_item(req, pp) ==
    LET user_id == IntField(<<"path", "user_id">>, pp["user_id"])
        q == QueryOptStr(req, S_q)
        short == QueryBool(req, S_short, <<"query", "short">>, FALSE)
    IN Finish(user_id.errs \o q.errs \o short.errs,
              read_user_item(user_id.val, PyStr(pp["item_id"]), q.val, short.val))

Call_create_item(req) ==
    LET item == Item(req.body)
    IN Finish(item.errs, create_item(item.val))

Call_create_item_put(req, pp) ==
    LET item_id == IntField(<<"path", "item_id">>, pp["item_id"])
        item == Item(req.body)
    IN Finish(item_id.errs \o item.errs, create_item_put(item_id.val, item.val))

Call_read_fruits(req) ==
    LET q == QueryConstrained(req, S_q, <<"query", "q">>, FruitsQuery)
    IN Finish(q.errs, read_fruits(q.val))

Call_read_vegetables(req) ==
    LET q == QueryStrList(req, S_veg, <<"query", "veg">>, VegetablesQuery)
    IN Finish(q.errs, read_vegetables(q.val))

Call_read_stones(req) ==
    LET q == QueryConstrained(req, S_stone_query, <<"query", "stone-query">>, StonesQuery)
    IN Finish(q.errs, read_stones(q.val))

Call(endpoint, req, pp, db) ==
    IF endpoint = "read_item_query" THEN Call_read_item_query(req, db)
    ELSE [db |-> db,
          resp |->
            CASE endpoint = "root" -> Finish(<<>>, root)
              [] endpoint = "read_item" -> Call_read_item(pp)
              [] endpoint = "read_user_me" -> Finish(<<>>, read_user_me)
              [] endpoint = "read_user" -> Finish(<<>>, read_user(PyStr(pp["user_id"])))
              [] endpoint = "read_users" -> Finish(<<>>, read_users)
              [] endpoint = "read_users3" -> Finish(<<>>, read_users3)
              [] endpoint = "get_model" -> Call_get_model(pp)
              [] endpoint = "read_file" -> Finish(<<>>, read_file(PyStr(pp["file_path"])))
              [] endpoint = "read_thing" -> Call_read_thing(req, pp)
              [] endpoint = "read_user_item" -> Call_read_user_item(req, pp)
              [] endpoint = "create_item" -> Call_create_item(req)
              [] endpoint = "create_item_put" -> Call_create_item_put(req, pp)
              [] endpoint = "read_fruits" -> Call_read_fruits(req)
              [] endpoint = "read_vegetables" -> Call_read_vegetables(req)
              [] endpoint = "read_stones" -> Call_read_stones(req)]

(* The whole service as a function of one request and the catalog.         *)
Serve(req, db) ==
    LET d == Dispatch(req)
    IN IF d.endpoint = "" THEN d.resp ELSE Call(d.endpoint, req, d.params, db).resp

(***************************************************************************)
(* Requests.                                                               *)
(***************************************************************************)
KV(k, v) == [k |-> k, v |-> v]

Request(method, path, query, body) ==
    [method |-> method, path |-> path, query |-> query, body |-> body]

Get(path) == Request("GET", path, <<>>, None)
GetQ(path, query) == Request("GET", path, query, None)

NoReq == Request("", <<>>, <<>>, None)

IntTexts == {IntToStr(n) : n \in (0 - MaxNeg)..MaxIdx}

Segs ==
    {S_me, S_abc, S_def, S_ghi, S_a, S_b, S_c, S_x, S_the_current_user, S_users, <<"+", "1">>}
    \cup IntTexts

RECURSIVE SeqsUpTo(_, _)
SeqsUpTo(S, n) ==
    IF n = 0 THEN {<<>>}
    ELSE LET shorter == SeqsUpTo(S, n - 1)
         IN shorter \cup {Append(q, x) : q \in shorter, x \in S}

(* Optional query keys: each key absent or present with one of its values. *)
OptKV(k, values) == {<<>>} \cup {<<KV(k, v)>> : v \in values}

Bodies ==
    {None} \cup
    {PyDict(name @@ price @@ tax) :
        name \in {EmptyDict, "name" :> PyStr(S_hammer)},
        price \in {EmptyDict, "price" :> PyInt(10), "price" :> PyStr(S_x), "price" :> None},
        tax \in {EmptyDict, "tax" :> None, "tax" :> PyInt(2), "tax" :> PyInt(0)}}

UsersRequests ==
    {Get(<<S_users, s>>) : s \in Segs \cup {S_empty}}
    \cup {Request(m, <<S_users>>, <<>>, None) : m \in {"GET", "POST"}}
    \cup {Request("POST", <<S_users, S_me>>, <<>>, None)}

ItemIdRequests ==
    {Request(m, <<S_items, s>>, <<>>, b) :
        m \in {"GET", "PUT", "DELETE"}, s \in {S_x, S_me, IntToStr(MaxIdx), <<"-", "1">>},
        b \in Bodies}
    \cup {Get(<<S_items, s>>) : s \in Segs}
    \cup {Get(<<S_items>>)}

ModelRequests == {Get(<<S_models, s>>) : s \in Segs \cup {S_empty}}

FileSegs == {S_a, S_b, S_c_txt, S_empty}

FileRequests ==
    {Request(m, <<S_files>> \o segs, <<>>, None) :
        m \in {"GET", "POST"}, segs \in SeqsUpTo(FileSegs, MaxSegs)}

ItemsQueryRequests ==
    {GetQ(<<S_items, S_empty>>, a \o b) :
        a \in OptKV(S_skip, IntTexts \cup {S_x}), b \in OptKV(S_limit, IntTexts \cup {S_x})}
    \cup {GetQ(<<S_items, S_empty>>, <<KV(S_limit, <<"1">>), KV(S_skip, <<"2">>), KV(S_limit, <<"2">>)>>)}

ShortTexts == {S_true, S_True, S_yes, S_false, S_maybe, <<"0">>, S_empty}

ThingRequests ==
    {GetQ(<<S_things, s>>, a \o b) :
        s \in {S_x, S_me, <<"7">>}, a \in OptKV(S_q, {S_empty, S_other}),
        b \in OptKV(S_short, ShortTexts)}

UserItemRequests ==
    {GetQ(<<S_users, s, S_items, t>>, a \o b) :
        s \in {S_me, S_x, <<"1">>, <<"-", "1">>}, t \in {S_y, <<"7">>},
        a \in OptKV(S_q, {S_empty, S_other}), b \in OptKV(S_short, {S_true, S_maybe})}

BodyRequests ==
    {Request("POST", <<S_items, S_empty>>, <<>>, b) : b \in Bodies}

FruitTexts ==
    {S_empty, S_ab, S_abc, S_other, S_fixedquery, S_fixedquery \o S_newline,
     S_fixedquery \o S_x, S_x \o S_fixedquery, S_newline \o S_fixedquery,
     S_fixedquery \o S_newline \o S_newline,
     SubSeq(S_fixedquery, 1, 9), Rep("z", 50), Rep("z", 51), S_hard, S_hard \o S_newline}

FruitRequests ==
    {GetQ(<<S_fruits, S_empty>>, a) : a \in OptKV(S_q, FruitTexts)}
    \cup {GetQ(<<S_fruits, S_empty>>, <<KV(S_q, S_ab), KV(S_q, S_fixedquery)>>),
          GetQ(<<S_fruits, S_empty>>, <<KV(S_veg, S_ab)>>)}

StoneRequests ==
    {GetQ(<<S_stones, S_empty>>, a) : a \in OptKV(S_stone_query, FruitTexts) \cup OptKV(S_q, {S_hard})}

VegTexts == {S_carrot, S_kale, S_ab, S_empty}

VegetableRequests ==
    {GetQ(<<S_vegetables, S_empty>>, [i \in 1..Len(vs) |-> KV(S_veg, vs[i])]) :
        vs \in SeqsUpTo(VegTexts, MaxVeg)}
    \cup {GetQ(<<S_vegetables, S_empty>>, <<KV(S_veg, S_carrot), KV(S_q, S_ab), KV(S_veg, S_kale)>>),
          GetQ(<<S_vegetables, S_empty>>, <<KV(S_q, S_carrot)>>)}

OtherRequests ==
    {Get(<<S_empty>>), Get(<<S_nowhere>>), Get(<<S_nowhere, S_empty>>), Get(<<S_fruits>>),
     Get(<<S_files>>), Get(<<S_empty, S_empty>>), Request("DELETE", <<S_empty>>, <<>>, None)}

(* Every request the one-at-a-time specification sends.                    *)
SeqRequests ==
    UsersRequests \cup ItemIdRequests \cup ModelRequests \cup FileRequests
    \cup ItemsQueryRequests \cup ThingRequests \cup UserItemRequests \cup BodyRequests
    \cup FruitRequests \cup StoneRequests \cup VegetableRequests \cup OtherRequests

(* The requests the concurrent specification interleaves: every route, and *)
(* every kind of failure.                                                  *)
ConcRequests ==
    {Get(<<S_empty>>), Get(<<S_items, <<"3">>>>), Get(<<S_items, S_x>>),
     Get(<<S_users, S_me>>), Get(<<S_users>>),
     Get(<<S_models, S_def>>), Get(<<S_files, S_a, S_c_txt>>),
     Get(<<S_items, S_empty>>),
     GetQ(<<S_things, S_x>>, <<KV(S_q, S_other)>>),
     Request("POST", <<S_items, S_empty>>, <<>>,
             PyDict(("name" :> PyStr(S_hammer)) @@ ("price" :> PyInt(10)))),
     Request("PUT", <<S_items, <<"3">>>>, <<>>,
             PyDict(("name" :> PyStr(S_hammer)) @@ ("price" :> PyInt(10)))),
     GetQ(<<S_vegetables, S_empty>>, <<KV(S_veg, S_carrot), KV(S_veg, S_kale)>>),
     Get(<<S_nowhere>>), Request("DELETE", <<S_users>>, <<>>, None), Get(<<S_items>>)}

(***************************************************************************)
(* The state machine.                                                      *)
(***************************************************************************)
Workers == 1..NumWorkers

Idle == [pc |-> "idle", req |-> NoReq, endpoint |-> "", params |-> NoParams, resp |-> NoResp]

Init ==
    /\ fake_items_db = InitialCatalog
    /\ workers = [w \in Workers |-> Idle]

(* A request arrives at an idle worker.                                    *)
Receive(w, r) ==
    /\ workers[w].pc = "idle"
    /\ workers' = [workers EXCEPT ![w] = [Idle EXCEPT !.pc = "received", !.req = r]]
    /\ UNCHANGED fake_items_db

(* The router selects the route, or answers 404, 405 or 307 itself.        *)
SelectRoute(w) ==
    /\ workers[w].pc = "received"
    /\ LET d == Dispatch(workers[w].req)
       IN workers' = [workers EXCEPT ![w] =
             [@ EXCEPT !.pc = IF d.endpoint = "" THEN "done" ELSE "routed",
                       !.endpoint = d.endpoint, !.params = d.params, !.resp = d.resp]]
    /\ UNCHANGED fake_items_db

(* The selected route validates its parameters and runs its handler.       *)
Handle(w) ==
    /\ workers[w].pc = "routed"
    /\ LET out == Call(workers[w].endpoint, workers[w].req, workers[w].params, fake_items_db)
       IN /\ workers' = [workers EXCEPT ![w] = [@ EXCEPT !.pc = "done", !.resp = out.resp]]
          /\ fake_items_db' = out.db

(* The response is sent and the worker is free again.                      *)
Respond(w) ==
    /\ workers[w].pc = "done"
    /\ workers' = [workers EXCEPT ![w] = Idle]
    /\ UNCHANGED fake_items_db

Step(w, R) ==
    \/ \E r \in R : Receive(w, r)
    \/ SelectRoute(w)
    \/ Handle(w)
    \/ Respond(w)

Next == \E w \in Workers : Step(w, ConcRequests)

Spec == Init /\ [][Next]_vars

(* One request at a time: a request is received only when every other     *)
(* worker is idle.                                                         *)
OthersIdle(w) == \A v \in Workers \ {w} : workers[v].pc = "idle"

SeqReceive(w, r) == OthersIdle(w) /\ Receive(w, r)

SeqNext ==
    \E w \in Workers :
        \/ \E r \in SeqRequests : SeqReceive(w, r)
        \/ SelectRoute(w)
        \/ Handle(w)
        \/ Respond(w)

SpecSeq == Init /\ [][SeqNext]_vars

(***************************************************************************)
(* Properties.                                                             *)
(***************************************************************************)
Done(w) == workers[w].pc = "done"

Selected(w) == workers[w].pc \in {"routed", "done"}

IsGet(w, n, first) ==
    /\ workers[w].req.method = "GET"
    /\ Len(workers[w].req.path) = n
    /\ workers[w].req.path[1] = first

(* C1: GET /users/me is always served by read_user_me and answers          *)
(* {"user_id": "the_current_user"}; read_user never runs with user_id =    *)
(* "me"; GET /users/s for any other single segment s answers               *)
(* {"user_id": s}.                                                         *)
C1_UsersMeLiteralFirst ==
    \A w \in Workers :
        /\ (Selected(w) /\ workers[w].endpoint = "read_user")
              => workers[w].params["user_id"] # S_me
        /\ (Done(w) /\ IsGet(w, 2, S_users) /\ workers[w].req.path[2] # <<>>)
              => IF workers[w].req.path[2] = S_me
                 THEN /\ workers[w].endpoint = "read_user_me"
                      /\ workers[w].resp = R200(PyDict("user_id" :> PyStr(S_the_current_user)))
                 ELSE workers[w].resp = R200(PyDict("user_id" :> PyStr(workers[w].req.path[2])))

C1_Witness ==
    \E w \in Workers :
        /\ Done(w)
        /\ workers[w].req = Get(<<S_users, S_me>>)
        /\ workers[w].resp.status = 200

(* C2: in every reachable state, under any interleaving of requests, no    *)
(* worker has selected read_users3, and every finished GET /users was      *)
(* served by read_users and answers ["Rick", "Morty"].                     *)
C2_FirstUsersHandlerOnly ==
    \A w \in Workers :
        /\ workers[w].endpoint # "read_users3"
        /\ (Done(w) /\ workers[w].req.method = "GET" /\ workers[w].req.path = <<S_users>>)
              => /\ workers[w].endpoint = "read_users"
                 /\ workers[w].resp = R200(PyList(<<PyStr(S_Rick), PyStr(S_Morty)>>))

C2_Witness ==
    \A w \in Workers : Done(w) /\ workers[w].req = Get(<<S_users>>)

ModelReply(value, message) ==
    R200(PyDict(("model_name" :> PyStr(value)) @@ ("message" :> PyStr(message))))

(* C3: GET /models/abc answers message "oh", /models/ghi "hi", /models/def *)
(* "el gato", each echoing the value as model_name; every other segment,   *)
(* the member names a, b, c included, is rejected with a validation error. *)
C3_EnumByValue ==
    \A w \in Workers :
        (Done(w) /\ IsGet(w, 2, S_models) /\ workers[w].req.path[2] # <<>>)
            => LET s == workers[w].req.path[2]
               IN CASE s = S_abc -> workers[w].resp = ModelReply(S_abc, S_oh)
                    [] s = S_ghi -> workers[w].resp = ModelReply(S_ghi, S_hi)
                    [] s = S_def -> workers[w].resp = ModelReply(S_def, S_el_gato)
                    [] OTHER -> /\ workers[w].resp.status = 422
                                /\ workers[w].endpoint = "get_model"

C3_Witness ==
    \E w \in Workers :
        /\ Done(w)
        /\ workers[w].req = Get(<<S_models, S_a>>)
        /\ workers[w].resp.status = 422

ItemsRequest(query) == GetQ(<<S_items, S_empty>>, query)

(* The catalog items at the 0-based indices i, skip <= i < min(skip +      *)
(* limit, 3), in catalog order.                                            *)
ExpectedPage(skip, limit) ==
    LET hi == IF skip + limit < 3 THEN skip + limit ELSE 3
        n == IF hi > skip THEN hi - skip ELSE 0
    IN PyList([j \in 1..n |-> InitialCatalog[skip + j]])

(* C4: GET /items/ with skip >= 0 and limit >= 0 (absent: skip = 0, limit  *)
(* = 10) answers exactly the catalog items at indices skip <= i <          *)
(* min(skip + limit, 3) in catalog order, never more than limit items, and *)
(* the same answer however many requests were served before.               *)
C4_Pagination ==
    \A w \in Workers :
        Done(w) =>
            \A a, b \in 0..MaxIdx :
                /\ workers[w].req = ItemsRequest(<<KV(S_skip, IntToStr(a)), KV(S_limit, IntToStr(b))>>)
                      => /\ workers[w].resp = R200(ExpectedPage(a, b))
                         /\ Len(workers[w].resp.body.v) <= b
                /\ workers[w].req = ItemsRequest(<<KV(S_skip, IntToStr(a))>>)
                      => workers[w].resp = R200(ExpectedPage(a, 10))
                /\ workers[w].req = ItemsRequest(<<KV(S_limit, IntToStr(b))>>)
                      => workers[w].resp = R200(ExpectedPage(0, b))
                /\ workers[w].req = ItemsRequest(<<>>)
                      => workers[w].resp = R200(PyList(InitialCatalog))

C4_Witness ==
    \E w \in Workers :
        /\ Done(w)
        /\ workers[w].req = ItemsRequest(<<KV(S_skip, <<"1">>), KV(S_limit, <<"1">>)>>)
        /\ workers[w].resp = R200(PyList(<<PyDict("item_name" :> PyStr(S_Bar))>>))

TaxlessBody == PyDict(("name" :> PyStr(S_hammer)) @@ ("price" :> PyInt(10)))

TaxedBody(tax) == PyDict(("name" :> PyStr(S_hammer)) @@ ("price" :> PyInt(10)) @@ ("tax" :> PyInt(tax)))

ItemFields(tax) ==
    ("name" :> PyStr(S_hammer)) @@ ("description" :> None) @@ ("price" :> PyInt(10))
    @@ ("tax" :> tax)

(* C5: POST /items/ with a valid body without tax ends in a server error   *)
(* (the sum raises) and not in a response that takes tax as zero; with tax *)
(* present it answers the item fields plus price_with_tax = price + tax;   *)
(* PUT /items/{item_id} with the same tax-less body answers item_id merged *)
(* with the item fields.                                                   *)
C5_AbsentTaxFailsOnlyInSum ==
    \A w \in Workers :
        Done(w) =>
            /\ workers[w].req = Request("POST", <<S_items, S_empty>>, <<>>, TaxlessBody)
                  => workers[w].resp = R500
            /\ \A t \in {0, 2} :
                  workers[w].req = Request("POST", <<S_items, S_empty>>, <<>>, TaxedBody(t))
                      => workers[w].resp =
                            R200(PyDict(ItemFields(PyInt(t)) @@ ("price_with_tax" :> PyInt(10 + t))))
            /\ \A n \in (0 - MaxNeg)..MaxIdx :
                  workers[w].req = Request("PUT", <<S_items, IntToStr(n)>>, <<>>, TaxlessBody)
                      => workers[w].resp = R200(PyDict(ItemFields(None) @@ ("item_id" :> PyInt(n))))

C5_Witness ==
    \E w \in Workers :
        /\ Done(w)
        /\ workers[w].req = Request("POST", <<S_items, S_empty>>, <<>>, TaxlessBody)
        /\ workers[w].resp = R500

FruitsRequest(query) == GetQ(<<S_fruits, S_empty>>, query)

FruitCatalog ==
    "fruits" :> PyList(<<PyDict("fruit_id" :> PyStr(S_apple)), PyDict("fruit_id" :> PyStr(S_pear))>>)

(* C6 as stated: GET /fruits/ succeeds exactly when q is absent or q is    *)
(* "fixedquery"; every other q is a validation error; on success the       *)
(* two-fruit catalog is returned, with the key q iff q was supplied.       *)
C6_OnlyFixedquerySucceeds ==
    \A w \in Workers :
        Done(w) =>
            /\ workers[w].req = FruitsRequest(<<>>) => workers[w].resp = R200(PyDict(FruitCatalog))
            /\ \A v \in FruitTexts :
                  workers[w].req = FruitsRequest(<<KV(S_q, v)>>)
                      => IF v = S_fixedquery
                         THEN workers[w].resp = R200(PyDict(FruitCatalog @@ ("q" :> PyStr(v))))
                         ELSE workers[w].resp.status = 422

(* C6 amended: GET /fruits/ succeeds exactly when q is absent, q is        *)
(* "fixedquery", or q is "fixedquery" followed by one newline (which the   *)
(* pattern ^fixedquery$ also matches); every other supplied q is a         *)
(* validation error; on success the two-fruit catalog is returned, with    *)
(* the key q iff q was supplied.                                           *)
C6_FixedqueryOrTrailingNewline ==
    \A w \in Workers :
        Done(w) =>
            /\ workers[w].req = FruitsRequest(<<>>) => workers[w].resp = R200(PyDict(FruitCatalog))
            /\ \A v \in FruitTexts :
                  workers[w].req = FruitsRequest(<<KV(S_q, v)>>)
                      => IF v \in {S_fixedquery, S_fixedquery \o S_newline}
                         THEN workers[w].resp = R200(PyDict(FruitCatalog @@ ("q" :> PyStr(v))))
                         ELSE workers[w].resp.status = 422

C6_Witness ==
    \E w \in Workers :
        /\ Done(w)
        /\ workers[w].req = FruitsRequest(<<KV(S_q, S_fixedquery \o S_newline)>>)
        /\ workers[w].resp.status = 200

VegetablesRequest(vs) ==
    GetQ(<<S_vegetables, S_empty>>, [i \in 1..Len(vs) |-> KV(S_veg, vs[i])])

(* C7: GET /vegetables/ returns the values of the repeated key veg under q *)
(* in URL order, duplicates kept; min_length=3 is applied to each element  *)
(* (a shorter element is a validation error) and not to their number; with *)
(* no veg key the answer is {"q": null}.                                   *)
C7_VegetablesInUrlOrder ==
    \A w \in Workers :
        Done(w) =>
            \A vs \in SeqsUpTo(VegTexts, MaxVeg) :
                workers[w].req = VegetablesRequest(vs)
                    => IF vs = <<>> THEN workers[w].resp = R200(PyDict("q" :> None))
                       ELSE IF \A i \in 1..Len(vs) : Len(vs[i]) >= 3
                       THEN workers[w].resp =
                               R200(PyDict("q" :> PyList([i \in 1..Len(vs) |-> PyStr(vs[i])])))
                       ELSE workers[w].resp.status = 422

C7_Witness ==
    \E w \in Workers :
        /\ Done(w)
        /\ workers[w].req = VegetablesRequest(<<S_carrot, S_kale>>)
        /\ workers[w].resp = R200(PyDict("q" :> PyList(<<PyStr(S_carrot), PyStr(S_kale)>>)))

(* C8: GET /files/s1/.../sn answers file_path = the segments joined by "/" *)
(* for every non-empty sequence of segments, and no request under /files/  *)
(* with several segments is answered 404.                                  *)
C8_FilePathGreedy ==
    \A w \in Workers :
        Done(w) =>
            /\ (workers[w].req.method = "GET" /\ Len(workers[w].req.path) >= 2
                  /\ workers[w].req.path[1] = S_files)
                  => workers[w].resp =
                        R200(PyDict("file_path" :> PyStr(Join(Tail(workers[w].req.path)))))
            /\ (Len(workers[w].req.path) >= 3 /\ workers[w].req.path[1] = S_files)
                  => workers[w].resp.status # 404

C8_Witness ==
    \E w \in Workers :
        /\ Done(w)
        /\ workers[w].req = Get(<<S_files, S_a, S_b, S_c_txt>>)
        /\ workers[w].resp =
              R200(PyDict("file_path" :> PyStr(<<"a", "/", "b", "/", "c", ".", "t", "x", "t">>)))

(* C9: under any interleaving, fake_items_db stays the initial three       *)
(* items and every finished request's response is the one the request      *)
(* alone determines, whatever was answered before or alongside it, errors  *)
(* included; a worker that has answered holds nothing of the old request.  *)
C9_StatelessAndCatalogFixed ==
    /\ fake_items_db = InitialCatalog
    /\ \A w \in Workers :
          /\ Done(w) => workers[w].resp = Serve(workers[w].req, InitialCatalog)
          /\ workers[w].pc \in {"idle", "received", "routed", "done"}
          /\ workers[w].pc = "idle" => workers[w] = Idle

C9_Witness ==
    \E v, w \in Workers :
        /\ Done(v) /\ workers[v].resp = R500
        /\ Done(w) /\ workers[w].req = ItemsRequest(<<>>)
        /\ workers[w].resp = R200(PyList(InitialCatalog))

NonIntSegs == {S_me, S_abc, S_def, S_ghi, S_a, S_b, S_c, S_x, S_the_current_user, S_users}

(* C10: route selection ignores the declared parameter type and is final:  *)
(* GET /items/x with non-integer x is a 422 from read_item, GET            *)
(* /users/me/items/y is selected by read_user_item and is a 422 on         *)
(* user_id, a 422 always comes from the first route matching method and    *)
(* path, and 404 is answered only when no route matches method and path.   *)
C10_SelectionIgnoresTypes ==
    \A w \in Workers :
        Done(w) =>
            /\ (IsGet(w, 2, S_items) /\ workers[w].req.path[2] \in NonIntSegs)
                  => /\ workers[w].endpoint = "read_item"
                     /\ workers[w].resp =
                           R422(<<Err(<<"path", "item_id">>, "type_error.integer")>>)
            /\ (IsGet(w, 4, S_users) /\ workers[w].req.path[2] = S_me
                  /\ workers[w].req.path[3] = S_items /\ workers[w].req.path[4] # <<>>)
                  => /\ workers[w].endpoint = "read_user_item"
                     /\ workers[w].resp.status = 422
                     /\ \E i \in 1..Len(workers[w].resp.detail) :
                           workers[w].resp.detail[i] =
                              Err(<<"path", "user_id">>, "type_error.integer")
            /\ workers[w].resp.status = 422
                  => \E i \in 1..Len(routes) :
                        /\ routes[i].endpoint = workers[w].endpoint
                        /\ routes[i].method = workers[w].req.method
                        /\ PathMatches(i, workers[w].req.path)
                        /\ \A j \in 1..(i - 1) :
                              ~(routes[j].method = workers[w].req.method
                                /\ PathMatches(j, workers[w].req.path))
            /\ workers[w].resp.status = 404
                  => ~\E i \in 1..Len(routes) :
                         /\ routes[i].method = workers[w].req.method
                         /\ PathMatches(i, workers[w].req.path)

C10_Witness ==
    \E w \in Workers :
        /\ Done(w)
        /\ workers[w].req = Get(<<S_users, S_me, S_items, S_y>>)
        /\ workers[w].resp.status = 422

====
